---- MODULE Spec2Model ----
(***************************************************************************)
(* Model of DocumentGenerator (src/document_generator.py): the text        *)
(* sanitizer, the markdown table parser, the answer formatter, the         *)
(* question/metadata layout and the generate_document tree walk.           *)
(*                                                                         *)
(* A text is a sequence of tokens.  A token is one of the whitespace       *)
(* characters " ", "\t", "\n", the column separator "|", one of the        *)
(* markup tags "<br>", "<p>", or any other string, which stands for a run  *)
(* of ordinary non-blank characters (a word).                              *)
(***************************************************************************)
EXTENDS Integers, Sequences, FiniteSets, TLC

VARIABLES pc, text, cleaned, recleaned, quest, document, raised, answer_value,
          data, log, saved, styles, cursor

vars == <<pc, text, cleaned, recleaned, quest, document, raised, answer_value,
          data, log, saved, styles, cursor>>

textVars == <<text, cleaned, recleaned>>

questVars == <<quest, answer_value>>

walkVars == <<data, log, saved, styles, cursor>>

(***************************************************************************)
(* Bounds                                                                  *)
(***************************************************************************)
MaxTextLen == 5

MaxCols == 2

MaxRows == 2

MaxSections == 2

MaxQuestions == 2

MaxSubSections == 2

MaxSubQuestions == 1

\* sections, subsections and questions of one input document
MaxBlocks == 6

\* the most faults (a question without "docListAnswer", a section without
\* "subSections") in a drawn document
MaxFaults == 1

(***************************************************************************)
(* Text helpers                                                            *)
(***************************************************************************)
Blank == {" ", "\t"}

Whitespace == {" ", "\t", "\n"}

Tags == {"<br>", "<p>"}

RECURSIVE LStrip(_)
LStrip(s) ==
    IF s # <<>> /\ Head(s) \in Whitespace THEN LStrip(Tail(s)) ELSE s

RECURSIVE RStrip(_)
RStrip(s) ==
    IF s # <<>> /\ s[Len(s)] \in Whitespace
    THEN RStrip(SubSeq(s, 1, Len(s) - 1))
    ELSE s

\* str.strip()
Strip(s) == RStrip(LStrip(s))

(***************************************************************************)
(* self.h.handle(text): html2text.HTML2Text with body_width = 0.           *)
(* HTML2Text keeps an output buffer and the flags start, space and p_p.    *)
(* Character data has every whitespace run folded into one space; a run    *)
(* that opens a chunk only raises the space flag.  <br> writes two spaces  *)
(* and a newline, <p> asks for two newlines before the next output.  The   *)
(* field mid says the chunk being read has already written a word.         *)
(***************************************************************************)
HandleStart ==
    [out |-> <<>>, start |-> TRUE, space |-> FALSE, p_p |-> 0, mid |-> FALSE]

RECURSIVE Newlines(_)
Newlines(n) == IF n = 0 THEN <<>> ELSE <<"\n">> \o Newlines(n - 1)

LastWasNL(out) == out # <<>> /\ out[Len(out)] = "\n"

\* HTML2Text.o(data): the whitespace bookkeeping done before data is written
HandleOut(st, tokens) ==
    LET space == IF st.start THEN FALSE ELSE st.space
        p_p   == IF st.start THEN 0 ELSE st.p_p
        pre   == IF p_p > 0 THEN Newlines(p_p)
                 ELSE IF space /\ ~LastWasNL(st.out) THEN <<" ">>
                 ELSE <<>>
    IN  [st EXCEPT !.out = st.out \o pre \o tokens,
                   !.start = FALSE, !.space = FALSE, !.p_p = 0]

HandleToken(st, c) ==
    IF c = "<br>" THEN [HandleOut(st, <<" ", " ", "\n">>) EXCEPT !.mid = FALSE]
    ELSE IF c = "<p>" THEN [st EXCEPT !.p_p = 2, !.mid = FALSE]
    ELSE IF c \in Whitespace THEN
        IF st.mid
        THEN IF st.out[Len(st.out)] = " " THEN st
             ELSE [st EXCEPT !.out = st.out \o <<" ">>]
        ELSE [st EXCEPT !.space = TRUE]
    ELSE IF st.mid THEN [st EXCEPT !.out = st.out \o <<c>>]
    ELSE [HandleOut(st, <<c>>) EXCEPT !.mid = TRUE]

\* the states of the parser
HandleStates ==
    [out : Seq(STRING), start : BOOLEAN, space : BOOLEAN, p_p : 0..2,
     mid : BOOLEAN]

\* HTML2Text.feed(data): the state after the tokens of t are read in turn.
\* feed[st, lo, hi] reads t[lo..hi] from state st, the first half before the
\* second.
HandleFrom(t) ==
    LET feed[st \in HandleStates, lo \in 1..(Len(t) + 1), hi \in 0..Len(t)] ==
            IF lo > hi THEN st
            ELSE IF lo = hi THEN HandleToken(st, t[lo])
            ELSE LET half == (lo + hi) \div 2
                 IN  feed[feed[st, lo, half], half + 1, hi]
    IN  feed[HandleStart, 1, Len(t)]

Handle(t) == HandleFrom(t).out \o <<"\n">>

(***************************************************************************)
(* re.sub(r'\n[ \t]*\n[ \t]*\n', '\n\n', text): one left-to-right pass     *)
(* over non-overlapping matches.                                           *)
(***************************************************************************)
RECURSIVE SkipBlanks(_, _)
SkipBlanks(s, i) ==
    IF i <= Len(s) /\ s[i] \in Blank THEN SkipBlanks(s, i + 1) ELSE i

\* index of the last character of a match starting at i, 0 when none
MatchEnd(s, i) ==
    IF s[i] # "\n" THEN 0
    ELSE LET j == SkipBlanks(s, i + 1)
         IN  IF j > Len(s) \/ s[j] # "\n" THEN 0
             ELSE LET k == SkipBlanks(s, j + 1)
                  IN  IF k > Len(s) \/ s[k] # "\n" THEN 0 ELSE k

RECURSIVE SubFrom(_, _)
\* the text from i on with every match replaced: the scan finds the first
\* match at or after i, keeps what comes before it and resumes after its end
SubFrom(s, i) ==
    LET starts == {j \in i..Len(s) : MatchEnd(s, j) > 0}
    IN  IF starts = {} THEN SubSeq(s, i, Len(s))
        ELSE LET m == CHOOSE j \in starts : \A k \in starts : j <= k
             IN  SubSeq(s, i, m - 1) \o <<"\n", "\n">>
                     \o SubFrom(s, MatchEnd(s, m) + 1)

CollapseBlankLines(s) == SubFrom(s, 1)

clean_text(t) == CollapseBlankLines(Strip(Handle(t)))

(***************************************************************************)
(* parse_markdown_table                                                    *)
(***************************************************************************)
RECURSIVE Split(_, _)
\* str.split(sep) for a one-character separator
Split(s, sep) ==
    IF \A i \in 1..Len(s) : s[i] # sep THEN <<s>>
    ELSE LET i == CHOOSE k \in 1..Len(s) :
                      s[k] = sep /\ \A j \in 1..(k - 1) : s[j] # sep
         IN  <<SubSeq(s, 1, i - 1)>> \o Split(SubSeq(s, i + 1, Len(s)), sep)

\* re.split(r'\s*\|\s*', line.strip()): the whitespace around a separator
\* belongs to the separator
SplitCells(line) ==
    LET parts == Split(Strip(line), "|")
    IN  [i \in 1..Len(parts) |-> Strip(parts[i])]

\* variant: the rows start at the second line (lines[1:])
parse_markdown_table_from_second(markdown) ==
    LET lines == Split(Strip(markdown), "\n")
    IN  [headers |-> SplitCells(lines[1]),
         rows    |-> [i \in 1..(Len(lines) - 1) |-> SplitCells(lines[i + 1])]]

parse_markdown_table(markdown) ==
    LET lines == Split(Strip(markdown), "\n")
    IN  [headers |-> SplitCells(lines[1]),
         rows    |-> [i \in 1..(Len(lines) - 2) |-> SplitCells(lines[i + 2])]]

(***************************************************************************)
(* handle_answer_type                                                      *)
(***************************************************************************)
MultiSelect == "Multiple Choice(Select all that apply)"

\* str.replace(" ", "")
RemoveSpaces(s) == SelectSeq(s, LAMBDA c : c # " ")

\* variant: Table and JSON answers are returned as they are
handle_answer_type_raw_tables(value, type) ==
    IF type = "Currency" THEN RemoveSpaces(value)
    ELSE IF type = "Percentage" THEN Strip(value) \o <<"%">>
    ELSE IF type = MultiSelect THEN Strip(value)
    ELSE IF type \in {"Table", "JSON"} THEN value
    ELSE clean_text(value)

handle_answer_type(value, type) ==
    IF type = "Currency" THEN RemoveSpaces(value)
    ELSE IF type = "Percentage" THEN Strip(value) \o <<"%">>
    ELSE IF type = MultiSelect THEN Strip(value)
    ELSE clean_text(value)

(***************************************************************************)
(* Tables.  A block of the document is a record                            *)
(*   [by, cols, rows]: by names the function that added the block, cols is *)
(*   the column count (0 for a paragraph), rows the rows added so far.     *)
(* A row of a two-column table is a record                                 *)
(*   [kind, label, value, grey, styled, cols, nested]: nested holds the    *)
(*   rows of the table inside the value cell and cols its column count.    *)
(* A row of a nested table is a sequence of cells [text, shade].           *)
(***************************************************************************)
CELL_BG_COLOR_WHITE == "FFFFFF"

CELL_BG_COLOR_HEADER == "94B1D4"

CELL_BG_COLOR_BLUE == "F6FAFF"

CELL_BG_COLOR_DARK == "002541"

NA == <<"N/A">>

EmptyCell == [text |-> <<>>, shade |-> "none"]

Row(kind, label, value, grey, styled, cols, nested) ==
    [kind |-> kind, label |-> label, value |-> value, grey |-> grey,
     styled |-> styled, cols |-> cols, nested |-> nested]

\* self.document.add_table(rows=0, cols=cols) called from the function by
Table(by, cols, rows) == [by |-> by, cols |-> cols, rows |-> rows]

\* _create_question_table
create_question_table == Table("_create_question_table", 2, <<>>)

\* build_question.add_question_row
add_question_row(name, value) ==
    LET shown == IF value # <<>> THEN value ELSE NA
    IN  Row("row", name, shown, shown = NA, TRUE, 0, <<>>)

\* one row of the nested table: cells[index].text = value for each value
\* that has a cell; raises IndexError at the first value without one
FillCells(cols, values) ==
    [i \in 1..cols |->
        IF i <= Len(values)
        THEN [text |-> values[i], shade |-> CELL_BG_COLOR_WHITE]
        ELSE EmptyCell]

\* _populate_table: the rows written, and whether a row overran the columns
populate_table(cols, headers, rows) ==
    LET all  == <<headers>> \o rows
        bad  == {i \in 1..Len(all) : Len(all[i]) > cols}
        last == IF bad = {} THEN Len(all)
                ELSE CHOOSE i \in bad : \A j \in bad : i <= j
    IN  [rows   |-> [i \in 1..last |-> FillCells(cols, all[i])],
         raised |-> IF bad = {} THEN "" ELSE "IndexError"]

\* build_question.add_question_table_row
add_question_table_row(name, value) ==
    LET parsed == parse_markdown_table(value)
        cols   == Len(parsed.headers)
        filled == populate_table(cols, parsed.headers, parsed.rows)
    IN  [row    |-> Row("row", name, <<>>, FALSE, filled.raised = "",
                        cols, filled.rows),
         raised |-> filled.raised]

\* _add_question_header: the row is added and merged before its text is read
add_question_header(q) ==
    IF {"elementNumber", "questionText"} \subseteq DOMAIN q
    THEN [row |-> Row("header", <<>>,
                      clean_text(q.elementNumber) \o <<" ">>
                          \o clean_text(q.questionText),
                      FALSE, TRUE, 0, <<>>),
          raised |-> ""]
    ELSE [row |-> Row("header", <<>>, <<>>, FALSE, FALSE, 0, <<>>),
          raised |-> "KeyError"]

\* variant: the row is added whenever the key is present
FollowUpIfPresent(acc, q) ==
    IF acc.raised # "" THEN acc
    ELSE IF "triggerValue" \notin DOMAIN q
    THEN [acc EXCEPT !.raised = "KeyError"]
    ELSE IF "parentElementNumber" \notin DOMAIN q
    THEN [acc EXCEPT !.raised = "KeyError"]
    ELSE [acc EXCEPT !.rows = acc.rows \o
            <<add_question_row(<<"Follow-up">>,
                clean_text(q.triggerValue) \o <<" ", "on", " ">>
                    \o clean_text(q.parentElementNumber))>>]

\* the follow-up step of build_question
FollowUp(acc, q) ==
    IF acc.raised # "" THEN acc
    ELSE IF "triggerValue" \notin DOMAIN q
    THEN [acc EXCEPT !.raised = "KeyError"]
    ELSE IF q.triggerValue = <<>> THEN acc
    ELSE IF "parentElementNumber" \notin DOMAIN q
    THEN [acc EXCEPT !.raised = "KeyError"]
    ELSE [acc EXCEPT !.rows = acc.rows \o
            <<add_question_row(<<"Follow-up">>,
                clean_text(q.triggerValue) \o <<" ", "on", " ">>
                    \o clean_text(q.parentElementNumber))>>]

IsTableType(type) == type = "Table" \/ type = "JSON"

\* the answer step of build_question
Answer(acc, q) ==
    IF acc.raised # "" THEN acc
    ELSE IF ~({"answerValue", "answerType"} \subseteq DOMAIN q)
    THEN [acc EXCEPT !.raised = "KeyError"]
    ELSE LET value == handle_answer_type(q.answerValue, q.answerType)
         IN  IF ~IsTableType(q.answerType)
             THEN [acc EXCEPT !.answer_value = value,
                              !.rows = acc.rows \o
                        <<add_question_row(<<"Answer">>, value)>>]
             ELSE LET r == add_question_table_row(<<"Answer">>, value)
                  IN  [acc EXCEPT !.answer_value = value,
                                  !.rows = acc.rows \o <<r.row>>,
                                  !.raised = r.raised]

RECURSIVE Flatten(_)
Flatten(ss) == IF ss = <<>> THEN <<>> ELSE Head(ss) \o Flatten(Tail(ss))

RECURSIVE Join(_)
\* ", ".join(documents)
Join(names) ==
    IF names = <<>> THEN <<>>
    ELSE IF Len(names) = 1 THEN <<names[1]>>
    ELSE <<names[1], ",", " ">> \o Join(Tail(names))

\* the comment and documents steps of build_question
CommentAndDocuments(acc, q) ==
    IF acc.raised # "" THEN acc
    ELSE IF "answerComments" \notin DOMAIN q
    THEN [acc EXCEPT !.raised = "KeyError"]
    ELSE LET withComment == acc.rows \o
                <<add_question_row(<<"Comment">>, clean_text(q.answerComments))>>
         IN  IF "docListAnswer" \notin DOMAIN q
             THEN [acc EXCEPT !.rows = withComment, !.raised = "KeyError"]
             ELSE LET documents ==
                          Flatten([i \in 1..Len(q.docListAnswer) |->
                                      q.docListAnswer[i].attachedFiles])
                  IN  [acc EXCEPT !.rows = withComment \o
                          <<add_question_row(<<"Documents">>, Join(documents))>>]

\* build_question: the tables it adds to the document, the exception it
\* ends with ("" when it returns) and its local answer_value
build_question(q) ==
    LET first  == Table("build_question", 2, <<>>)
        header == add_question_header(q)
        acc0   == [rows |-> <<header.row>>, raised |-> header.raised,
                   answer_value |-> <<>>]
        acc    == CommentAndDocuments(Answer(FollowUp(acc0, q), q), q)
    IN  [tables |-> <<first,
                      [create_question_table EXCEPT !.rows = acc.rows]>>,
         raised |-> acc.raised,
         answer_value |-> acc.answer_value]

(***************************************************************************)
(* Metadata.  A JSON value is [t |-> "str", v |-> text], [t |-> "null"] or *)
(* [t |-> "dict", d |-> a function from the keys present to values].       *)
(***************************************************************************)
Str(v) == [t |-> "str", v |-> v]

Null == [t |-> "null"]

Dict(d) == [t |-> "dict", d |-> d]

RECURSIVE get_nested_value(_, _, _)
get_nested_value(node, keys, default) ==
    IF keys = <<>> THEN node
    ELSE IF node.t # "dict" THEN default
    ELSE LET next == IF Head(keys) \in DOMAIN node.d
                     THEN node.d[Head(keys)] ELSE default
         IN  IF next = default THEN next
             ELSE get_nested_value(next, Tail(keys), default)

\* Python truthiness of a JSON value
Truthy(value) ==
    \/ value.t = "str" /\ value.v # <<>>
    \/ value.t = "dict" /\ DOMAIN value.d # {}

\* variant: a row is added for every entry
add_meta_data_row_always(rows, name, value) ==
    rows \o <<Row("meta", <<name>>,
                  IF value.t = "str" THEN value.v ELSE <<>>,
                  FALSE, TRUE, 0, <<>>)>>

add_meta_data_row(rows, name, value) ==
    IF ~Truthy(value) THEN rows
    ELSE rows \o <<Row("meta", <<name>>, value.v, FALSE, TRUE, 0, <<>>)>>

assessment_details ==
    << [name |-> "Assessment",
        keys |-> <<"pqiBasicInfo", "questionnaireBasicInfo",
                   "qStructureBasicInfo", "name">>],
       [name |-> "Report Generated", keys |-> <<"reportGeneratedOn">>],
       [name |-> "Publisher",
        keys |-> <<"pqiBasicInfo", "publishedByUser", "companyName">>],
       [name |-> "Published By",
        keys |-> <<"pqiBasicInfo", "publishedByUser", "userProfile",
                   "fullName">>],
       [name |-> "Published On", keys |-> <<"pqiBasicInfo", "publishedDate">>],
       [name |-> "Recipient", keys |-> <<"partner", "name">>],
       [name |-> "Received By",
        keys |-> <<"pqiBasicInfo", "publishedToContact", "contactProfile",
                   "fullName">>] >>

RECURSIVE MetadataRows(_, _, _)
\* the loop of add_assessment_metadata from entry i on
MetadataRows(root, i, rows) ==
    IF i > Len(assessment_details) THEN rows
    ELSE MetadataRows(root, i + 1,
            add_meta_data_row(rows, assessment_details[i].name,
                get_nested_value(root, assessment_details[i].keys,
                                 Str(<<>>))))

add_assessment_metadata(root) ==
    Table("add_assessment_metadata", 2, MetadataRows(root, 1, <<>>))

\* add_assessment_section
add_assessment_section(heading) ==
    Table("add_assessment_section", 1,
          <<Row("banner", <<>>, heading, FALSE, TRUE, 0, <<>>)>>)

\* self.document.add_paragraph(text)
Paragraph(t) ==
    Table("add_paragraph", 0, <<Row("paragraph", <<>>, t, FALSE, FALSE, 0, <<>>)>>)

(***************************************************************************)
(* Specification of the sanitizer alone: a text is drawn, sanitized, and   *)
(* the result sanitized once more.                                         *)
(***************************************************************************)
TextAlphabet == {"a", " ", "\n", "<br>", "<p>"}

Texts == UNION {[1..n -> TextAlphabet] : n \in 0..MaxTextLen}

InitText ==
    /\ pc = "text"
    /\ text \in Texts
    /\ cleaned = <<>>
    /\ recleaned = <<>>
    /\ quest = <<>>
    /\ document = <<>>
    /\ raised = ""
    /\ answer_value = <<>>
    /\ data = <<>>
    /\ log = <<>>
    /\ saved = 0
    /\ styles = {}
    /\ cursor = <<>>

Clean ==
    /\ pc = "text"
    /\ cleaned' = clean_text(text)
    /\ pc' = "cleaned"
    /\ UNCHANGED <<text, recleaned, questVars, document, raised, walkVars>>

Reclean ==
    /\ pc = "cleaned"
    /\ recleaned' = clean_text(cleaned)
    /\ pc' = "recleaned"
    /\ UNCHANGED <<text, cleaned, questVars, document, raised, walkVars>>

NextText == Clean \/ Reclean

SpecText == InitText /\ [][NextText]_vars

(***************************************************************************)
(* Specification of build_question alone: a question is drawn and          *)
(* build_question is called on it with an empty document.                  *)
(***************************************************************************)
AnswerTypes == {"Currency", "Percentage", MultiSelect, "Table", "JSON", "Text"}

\* the cell in line r, column c of a generated table text
Word(r, c) == ToString(10 * r + c)

RECURSIVE LineCells(_, _)
LineCells(r, c) ==
    IF c = 1 THEN <<Word(r, 1)>>
    ELSE LineCells(r, c - 1) \o <<" ", "|", " ", Word(r, c)>>

RECURSIVE DataLines(_, _, _)
DataLines(sep, widths, n) ==
    IF n = 0 THEN <<>>
    ELSE DataLines(sep, widths, n - 1) \o <<sep>> \o LineCells(n, widths[n])

\* a table text: a header of h cells, a separator line, and one data line
\* of widths[n] cells for each n; sep ends a line
TableText(sep, h, widths) ==
    LineCells(0, h) \o <<sep, "---", "|", "---">>
        \o DataLines(sep, widths, Len(widths))

TableTexts ==
    {TableText(sep, h, widths) :
        sep \in {"\n", "<br>"}, h \in 1..MaxCols,
        widths \in UNION {[1..n -> 1..(MaxCols + 1)] : n \in 0..MaxRows}}

PlainValues ==
    {<<>>, <<"100", " ", "00">>, <<" ", "42", " ">>,
     <<"x", "<br>", "<br>", "<br>", "<br>", "y">>}

Triggers == {<<>>, <<"Yes">>, <<"<br>", "Yes">>}

DocLists ==
    {<<>>,
     <<[attachedFiles |-> <<"a.pdf", "b.pdf">>]>>,
     <<[attachedFiles |-> <<"a.pdf">>], [attachedFiles |-> <<>>],
       [attachedFiles |-> <<"b.pdf">>]>>}

QuestionKeys ==
    {"elementNumber", "questionText", "answerType", "answerValue",
     "answerComments", "triggerValue", "parentElementNumber", "docListAnswer"}

\* keys a drawn question may lack
AbsentKeys == {"elementNumber", "parentElementNumber", "answerComments",
               "docListAnswer"}

Without(q, absent) == [k \in (DOMAIN q) \ absent |-> q[k]]

Questions ==
    {Without(q, absent) :
        q \in {r \in [elementNumber : {<<"Q1">>},
                      questionText : {<<"<p>", "what", " ", "?">>},
                      answerType : AnswerTypes,
                      answerValue : PlainValues \cup TableTexts,
                      answerComments : {<<>>, <<"ok">>},
                      triggerValue : Triggers,
                      parentElementNumber : {<<>>, <<"Q3">>},
                      docListAnswer : DocLists] :
                  r.triggerValue # <<>> => r.parentElementNumber # <<>>},
        absent \in {{}} \cup {{k} : k \in AbsentKeys}}

InitQuestion ==
    /\ pc = "question"
    /\ quest \in Questions
    /\ document = <<>>
    /\ raised = ""
    /\ answer_value = <<>>
    /\ text = <<>>
    /\ cleaned = <<>>
    /\ recleaned = <<>>
    /\ data = <<>>
    /\ log = <<>>
    /\ saved = 0
    /\ styles = {}
    /\ cursor = <<>>

BuildQuestion ==
    /\ pc = "question"
    /\ LET built == build_question(quest)
       IN  /\ document' = document \o built.tables
           /\ raised' = built.raised
           /\ answer_value' = built.answer_value
    /\ pc' = "built"
    /\ UNCHANGED <<quest, textVars, walkVars>>

NextQuestion == BuildQuestion

SpecQuestion == InitQuestion /\ [][NextQuestion]_vars

(***************************************************************************)
(* Specification of add_assessment_metadata alone: a root document is      *)
(* drawn and the metadata table is added to an empty document.  The values *)
(* at the ends of the key paths are strings or null, as in the export.     *)
(***************************************************************************)
Absent == [t |-> "absent"]

Prune(r) == [k \in {j \in DOMAIN r : r[j] # Absent} |-> r[k]]

Dicts(records) == {Dict(Prune(r)) : r \in records}

Leaves(word) == {Absent, Null, Str(<<>>), Str(<<word>>)}

\* a node on a key path: absent, not a mapping, or a mapping
Inner(records) == {Absent, Str(<<"x">>)} \cup Dicts(records)

Roots ==
    Dicts([pqiBasicInfo :
             Inner([questionnaireBasicInfo :
                        Inner([qStructureBasicInfo :
                                   Inner([name : Leaves("assessment")])]),
                    publishedByUser :
                        Inner([companyName : Leaves("company"),
                               userProfile :
                                   Inner([fullName : Leaves("publisher")])]),
                    publishedDate : Leaves("date"),
                    publishedToContact :
                        Inner([contactProfile :
                                   Inner([fullName : Leaves("contact")])])]),
           partner : Inner([name : Leaves("partner")]),
           reportGeneratedOn : Leaves("today")])

InitMeta ==
    /\ pc = "meta"
    /\ data \in Roots
    /\ document = <<>>
    /\ raised = ""
    /\ log = <<>>
    /\ saved = 0
    /\ styles = {}
    /\ cursor = <<>>
    /\ quest = <<>>
    /\ answer_value = <<>>
    /\ text = <<>>
    /\ cleaned = <<>>
    /\ recleaned = <<>>

AddAssessmentMetadata ==
    /\ pc = "meta"
    /\ document' = document \o <<add_assessment_metadata(data)>>
    /\ pc' = "metadata"
    /\ UNCHANGED <<raised, textVars, questVars, walkVars>>

NextMeta == AddAssessmentMetadata

SpecMeta == InitMeta /\ [][NextMeta]_vars

(***************************************************************************)
(* generate_document.  data is the JSON document: data.meta is the mapping *)
(* of its metadata keys, data.sections its "sections" array (the field is  *)
(* absent when the key is).  cursor is the position of the loops: section  *)
(* s, subsection ss, question q, and the phase of the section body.        *)
(***************************************************************************)
SeqsUpTo(S, n) == UNION {[1..k -> S] : k \in 0..n}

Least(a, b) == IF a <= b THEN a ELSE b

RECURSIVE SubShapes(_, _)
\* the kinds of the questions of at most n subsections, in at most size
\* blocks: a subsection is one block, and so is each of its questions
SubShapes(n, size) ==
    IF n = 0 \/ size <= 0 THEN {<<>>}
    ELSE {<<>>} \cup
         UNION {{<<kinds>> \o rest :
                    rest \in SubShapes(n - 1, size - 1 - Len(kinds))} :
                kinds \in SeqsUpTo({"ok", "bad"},
                                   Least(MaxSubQuestions, size - 1))}

\* the shapes of a section of at most size blocks: the kinds of its
\* questions, and of the questions of each subsection; has says whether the
\* "subSections" key is present
SectionShapes(size) ==
    UNION {{[qs |-> qs, has |-> TRUE, subs |-> subs] :
               subs \in SubShapes(MaxSubSections, size - 1 - Len(qs))}
           \cup {[qs |-> qs, has |-> FALSE, subs |-> <<>>]} :
           qs \in SeqsUpTo({"ok", "bad"}, Least(MaxQuestions, size - 1))}

RECURSIVE SumLen(_)
SumLen(ss) == IF ss = <<>> THEN 0 ELSE Len(Head(ss)) + SumLen(Tail(ss))

ShapeSize(shape) == 1 + Len(shape.qs) + Len(shape.subs) + SumLen(shape.subs)

\* element numbers fall as the position rises, so that the input order is
\* not the sorted order
Number(i) == ToString(9 - i)

\* a question of kind "bad" lacks the key "docListAnswer"
MkQuestion(kind, number) ==
    LET q == [elementNumber |-> number, questionText |-> <<"what", "?">>,
              answerType |-> "Text", answerValue |-> <<"yes">>,
              answerComments |-> <<>>, triggerValue |-> <<>>,
              parentElementNumber |-> <<>>, docListAnswer |-> <<>>]
    IN  IF kind = "ok" THEN q ELSE Without(q, {"docListAnswer"})

MkQuestions(kinds, prefix) ==
    [i \in 1..Len(kinds) |-> MkQuestion(kinds[i], prefix \o <<Number(i)>>)]

MkSubSection(kinds, s, ss) ==
    [elementNumber |-> <<Number(s), ".", Number(ss)>>,
     sectionName |-> <<"sub">>,
     questionDetails |-> MkQuestions(kinds, <<Number(s), ".", Number(ss), ".">>)]

MkSection(shape, s) ==
    LET sec == [elementNumber |-> <<Number(s)>>,
                sectionName |-> <<"section">>,
                questionDetails |-> MkQuestions(shape.qs, <<Number(s), ".">>),
                subSections |->
                    [i \in 1..Len(shape.subs) |->
                        MkSubSection(shape.subs[i], s, i)]]
    IN  IF shape.has THEN sec ELSE Without(sec, {"subSections"})

MetaSamples ==
    {Dict(<<>>),
     Dict([reportGeneratedOn |-> Str(<<"today">>),
           partner |-> Dict([name |-> Str(<<"partner">>)])])}

RECURSIVE ShapeSeqs(_, _)
\* the sequences of at most n section shapes that hold at most size blocks
ShapeSeqs(n, size) ==
    IF n = 0 \/ size <= 0 THEN {<<>>}
    ELSE {<<>>} \cup
         UNION {{<<shape>> \o rest :
                    rest \in ShapeSeqs(n - 1, size - ShapeSize(shape))} :
                shape \in SectionShapes(size)}

\* the faults of a shape: its questions of kind "bad", and the missing
\* "subSections" key
Faults(shape) ==
    Cardinality({i \in 1..Len(shape.qs) : shape.qs[i] = "bad"})
        + SumLen([i \in 1..Len(shape.subs) |->
                     SelectSeq(shape.subs[i], LAMBDA kind : kind = "bad")])
        + (IF shape.has THEN 0 ELSE 1)

RECURSIVE SumFaults(_)
SumFaults(shapes) ==
    IF shapes = <<>> THEN 0
    ELSE Faults(Head(shapes)) + SumFaults(Tail(shapes))

Documents ==
    {[meta |-> m, sections |-> [s \in 1..Len(shapes) |-> MkSection(shapes[s], s)]] :
        m \in MetaSamples,
        shapes \in {x \in ShapeSeqs(MaxSections, MaxBlocks) :
                        SumFaults(x) <= MaxFaults}}
    \cup {[meta |-> m] : m \in MetaSamples}

Log(level, message) == [level |-> level, message |-> message]

Heading(element) ==
    clean_text(element.elementNumber) \o <<".", " ">>
        \o clean_text(element.sectionName)

\* for quest in ...: the q-th element of the list
QuestionAt(questions, q) == questions[q]

\* variant: the subsections are walked from the last to the first
SubSectionAtReversed(section, ss) ==
    section.subSections[Len(section.subSections) + 1 - ss]

\* for subSection in section["subSections"]: the ss-th element
SubSectionAt(section, ss) == section.subSections[ss]

Init ==
    /\ pc = "Load"
    /\ data = <<>>
    /\ document = <<>>
    /\ raised = ""
    /\ log = <<>>
    /\ saved = 0
    /\ styles = {}
    /\ cursor = <<>>
    /\ quest = <<>>
    /\ answer_value = <<>>
    /\ text = <<>>
    /\ cleaned = <<>>
    /\ recleaned = <<>>

\* variant: the handlers log the error and do not return
LoadWithoutReturn ==
    /\ pc = "Load"
    /\ \/ /\ log' = Append(log, Log("ERROR", "Data file not found."))
          /\ data' = [meta |-> Dict(<<>>), sections |-> <<>>]
       \/ /\ log' = Append(log,
                  Log("ERROR", "Error decoding JSON from the data file."))
          /\ data' = [meta |-> Dict(<<>>), sections |-> <<>>]
       \/ /\ data' \in Documents
          /\ UNCHANGED log
    /\ pc' = "InitStyles"
    /\ UNCHANGED <<document, raised, saved, styles, cursor, textVars, questVars>>

\* open and json.load: the file is missing, is not JSON, or holds a document
Load ==
    /\ pc = "Load"
    /\ \/ /\ log' = Append(log, Log("ERROR", "Data file not found."))
          /\ pc' = "Aborted"
          /\ UNCHANGED data
       \/ /\ log' = Append(log,
                  Log("ERROR", "Error decoding JSON from the data file."))
          /\ pc' = "Aborted"
          /\ UNCHANGED data
       \/ /\ data' \in Documents
          /\ pc' = "InitStyles"
          /\ UNCHANGED log
    /\ UNCHANGED <<document, raised, saved, styles, cursor, textVars, questVars>>

\* page margins, fonts, the heading style and the title paragraph
InitStyles ==
    /\ pc = "InitStyles"
    /\ styles' = styles \cup {"Centrl Header"}
    /\ document' = document \o <<Paragraph(<<"Assessment", " ", "Export">>)>>
    /\ pc' = "RenderMetadata"
    /\ UNCHANGED <<data, raised, log, saved, cursor, textVars, questVars>>

\* the "Details" banner, the metadata table and a paragraph
RenderMetadata ==
    /\ pc = "RenderMetadata"
    /\ document' = document \o
           <<add_assessment_section(<<"Details">>),
             add_assessment_metadata(data.meta),
             Paragraph(<<>>)>>
    /\ pc' = "RenderSections"
    /\ cursor' = [s |-> 1, phase |-> "start", ss |-> 0, q |-> 0]
    /\ UNCHANGED <<data, raised, log, saved, styles, textVars, questVars>>

Raise(error) ==
    /\ raised' = error
    /\ pc' = "Raised"

\* for section in data["sections"]: the key is read once
EnterSections ==
    /\ pc = "RenderSections"
    /\ cursor.phase = "start"
    /\ IF "sections" \in DOMAIN data
       THEN /\ cursor' = [cursor EXCEPT !.phase = "banner"]
            /\ UNCHANGED <<pc, raised>>
       ELSE /\ Raise("KeyError")
            /\ UNCHANGED cursor
    /\ UNCHANGED <<data, document, log, saved, styles, textVars, questVars>>

\* the banner of section s and the entry into its question loop
RenderSectionBanner ==
    /\ pc = "RenderSections"
    /\ cursor.phase = "banner"
    /\ cursor.s <= Len(data.sections)
    /\ document' = document \o
           <<add_assessment_section(Heading(data.sections[cursor.s]))>>
    /\ cursor' = [cursor EXCEPT !.phase = "questions", !.q = 1]
    /\ UNCHANGED <<pc, data, raised, log, saved, styles, textVars, questVars>>

\* build_question in the loop over questions
RenderQuestionIn(questions) ==
    LET built == build_question(QuestionAt(questions, cursor.q))
    IN  /\ document' = document \o built.tables
        /\ IF built.raised = ""
           THEN /\ cursor' = [cursor EXCEPT !.q = cursor.q + 1]
                /\ UNCHANGED <<pc, raised>>
           ELSE /\ Raise(built.raised)
                /\ UNCHANGED cursor

RenderQuestion ==
    /\ pc = "RenderSections"
    /\ cursor.phase = "questions"
    /\ cursor.q <= Len(data.sections[cursor.s].questionDetails)
    /\ RenderQuestionIn(data.sections[cursor.s].questionDetails)
    /\ UNCHANGED <<data, log, saved, styles, textVars, questVars>>

\* for subSection in section["subSections"]: the key is read once
EnterSubSections ==
    /\ pc = "RenderSections"
    /\ cursor.phase = "questions"
    /\ cursor.q > Len(data.sections[cursor.s].questionDetails)
    /\ IF "subSections" \in DOMAIN data.sections[cursor.s]
       THEN /\ cursor' = [cursor EXCEPT !.phase = "subbanner", !.ss = 1]
            /\ UNCHANGED <<pc, raised>>
       ELSE /\ Raise("KeyError")
            /\ UNCHANGED cursor
    /\ UNCHANGED <<data, document, log, saved, styles, textVars, questVars>>

RenderSubSectionBanner ==
    /\ pc = "RenderSections"
    /\ cursor.phase = "subbanner"
    /\ cursor.ss <= Len(data.sections[cursor.s].subSections)
    /\ document' = document \o
           <<add_assessment_section(
                 Heading(SubSectionAt(data.sections[cursor.s], cursor.ss)))>>
    /\ cursor' = [cursor EXCEPT !.phase = "subquestions", !.q = 1]
    /\ UNCHANGED <<pc, data, raised, log, saved, styles, textVars, questVars>>

RenderSubQuestion ==
    /\ pc = "RenderSections"
    /\ cursor.phase = "subquestions"
    /\ cursor.q <= Len(SubSectionAt(data.sections[cursor.s],
                                    cursor.ss).questionDetails)
    /\ RenderQuestionIn(SubSectionAt(data.sections[cursor.s],
                                     cursor.ss).questionDetails)
    /\ UNCHANGED <<data, log, saved, styles, textVars, questVars>>

\* the paragraph that closes a subsection
EndSubSection ==
    /\ pc = "RenderSections"
    /\ cursor.phase = "subquestions"
    /\ cursor.q > Len(SubSectionAt(data.sections[cursor.s],
                                   cursor.ss).questionDetails)
    /\ document' = document \o <<Paragraph(<<>>)>>
    /\ cursor' = [cursor EXCEPT !.phase = "subbanner", !.ss = cursor.ss + 1]
    /\ UNCHANGED <<pc, data, raised, log, saved, styles, textVars, questVars>>

\* the paragraph that closes a section
EndSection ==
    /\ pc = "RenderSections"
    /\ cursor.phase = "subbanner"
    /\ cursor.ss > Len(data.sections[cursor.s].subSections)
    /\ document' = document \o <<Paragraph(<<>>)>>
    /\ cursor' = [cursor EXCEPT !.phase = "banner", !.s = cursor.s + 1]
    /\ UNCHANGED <<pc, data, raised, log, saved, styles, textVars, questVars>>

\* the section loop is exhausted
EndSections ==
    /\ pc = "RenderSections"
    /\ cursor.phase = "banner"
    /\ cursor.s > Len(data.sections)
    /\ pc' = "Save"
    /\ UNCHANGED <<data, document, raised, log, saved, styles, cursor,
                   textVars, questVars>>

\* self.document.save('demo.docx') and the info log
Save ==
    /\ pc = "Save"
    /\ saved' = saved + 1
    /\ log' = Append(log, Log("INFO", "Document generated successfully."))
    /\ pc' = "Saved"
    /\ UNCHANGED <<data, document, raised, styles, cursor, textVars, questVars>>

\* __main__: an exception that leaves generate_document is logged
MainExcept ==
    /\ pc = "Raised"
    /\ log' = Append(log, Log("ERROR", "Error generating document"))
    /\ pc' = "Failed"
    /\ UNCHANGED <<data, document, raised, saved, styles, cursor,
                   textVars, questVars>>

Next ==
    \/ Load
    \/ InitStyles
    \/ RenderMetadata
    \/ EnterSections
    \/ RenderSectionBanner
    \/ RenderQuestion
    \/ EnterSubSections
    \/ RenderSubSectionBanner
    \/ RenderSubQuestion
    \/ EndSubSection
    \/ EndSection
    \/ EndSections
    \/ Save
    \/ MainExcept

Spec == Init /\ [][Next]_vars

(***************************************************************************)
(* Properties                                                              *)
(***************************************************************************)
\* the table build_question filled, and its rows by label
QuestionTable == document[Len(document)]

HasRow(name) ==
    \E i \in 1..Len(QuestionTable.rows) : QuestionTable.rows[i].label = name

RowOf(name) ==
    QuestionTable.rows[CHOOSE i \in 1..Len(QuestionTable.rows) :
                            QuestionTable.rows[i].label = name]

RowLabels ==
    [i \in 1..Len(QuestionTable.rows) |->
        IF QuestionTable.rows[i].kind = "header" THEN <<"header">>
        ELSE QuestionTable.rows[i].label]

NoTripleNewline(s) ==
    \A i \in 1..(Len(s) - 2) :
        ~(s[i] = "\n" /\ s[i + 1] = "\n" /\ s[i + 2] = "\n")

\* two blank lines in a row: three newlines with only spaces or tabs between
NoRunOfBlankLines(s) == \A i \in 1..Len(s) : MatchEnd(s, i) = 0

\* C3: in a question table build_question completed, an empty answerValue
\* of a plain answer type shows "N/A" in the Answer row, and an empty
\* answerComments shows "N/A" in the Comment row.
C3_EmptyRendersNA ==
    (pc = "built" /\ raised = "") =>
        /\ (~IsTableType(quest.answerType) /\ quest.answerValue = <<>>)
               => RowOf(<<"Answer">>).value = NA
        /\ quest.answerComments = <<>> => RowOf(<<"Comment">>).value = NA

C7_BlankLinesCollapsed ==
    pc \in {"cleaned", "recleaned"} =>
        NoTripleNewline(cleaned) /\ NoRunOfBlankLines(cleaned)

\* C8: sanitizing sanitized text returns it unchanged.
C8_Idempotent == pc = "recleaned" => recleaned = cleaned

\* the cells of the lines of a table text, and whether the text is a header
\* line, a separator line and data lines no wider than the header
LineCount(t) == Len(Split(t, "\n"))

CellsOfLine(t, n) == SplitCells(Split(t, "\n")[n])

IsTableShaped(t) ==
    /\ LineCount(t) >= 2
    /\ \A n \in 3..LineCount(t) :
           Len(CellsOfLine(t, n)) <= Len(CellsOfLine(t, 1))

\* the Answer row holds a nested table that renders the table text t
RendersTable(t) ==
    LET answer == RowOf(<<"Answer">>)
        n      == LineCount(t) - 2
    IN  /\ raised = ""
        /\ answer.cols = Len(CellsOfLine(t, 1))
        /\ Len(answer.nested) = 1 + n
        /\ \A r \in 1..(1 + n) : Len(answer.nested[r]) = answer.cols
        /\ \A c \in 1..answer.cols :
               answer.nested[1][c].text = CellsOfLine(t, 1)[c]
        /\ \A r \in 1..n : \A c \in 1..Len(CellsOfLine(t, r + 2)) :
               answer.nested[r + 1][c].text = CellsOfLine(t, r + 2)[c]
        /\ \E i \in 1..(Len(RowLabels) - 2) :
               /\ RowLabels[i] = <<"Answer">>
               /\ RowLabels[i + 1] = <<"Comment">>
               /\ RowLabels[i + 2] = <<"Documents">>

RECURSIVE Lookup(_, _)
\* the value at the end of a key path, Absent when the path leaves the tree
Lookup(node, keys) ==
    IF keys = <<>> THEN node
    ELSE IF node.t = "dict" /\ Head(keys) \in DOMAIN node.d
    THEN Lookup(node.d[Head(keys)], Tail(keys))
    ELSE Absent

Resolved(root, i) == Lookup(root, assessment_details[i].keys)

Shown(root) ==
    {i \in 1..Len(assessment_details) :
        Resolved(root, i).t = "str" /\ Resolved(root, i).v # <<>>}

MetadataTable == document[Len(document)]

\* C6: the metadata table has one row for each configured entry whose key
\* path ends at a non-empty value, in the configured order, and no other
\* row; an entry whose path is missing, leaves the mappings or ends at an
\* empty value has no row.
C6_MetadataRows ==
    pc = "metadata" =>
        LET rows == MetadataTable.rows
        IN  /\ Len(rows) = Cardinality(Shown(data))
            /\ \A r \in 1..Len(rows) :
                   \E i \in Shown(data) :
                       /\ Cardinality({j \in Shown(data) : j < i}) = r - 1
                       /\ rows[r].label = <<assessment_details[i].name>>
                       /\ rows[r].value = Resolved(data, i).v
            /\ \A r \in 1..Len(rows) : rows[r].value # <<>>

C6_Witness ==
    /\ pc = "metadata"
    /\ Len(MetadataTable.rows) = 3
    /\ MetadataTable.rows[1].label = <<"Report Generated">>
    /\ MetadataTable.rows[3].label = <<"Received By">>
    /\ Resolved(data, 3) = Str(<<>>)
    /\ Resolved(data, 5) = Null
    /\ "partner" \in DOMAIN data.d /\ data.d["partner"].t = "str"

IsPrefix(a, b) == Len(a) <= Len(b) /\ SubSeq(b, 1, Len(a)) = a

\* the banners, the metadata table and the question tables of the document,
\* each by what it shows; paragraphs and tables without a row to show are
\* spacing, not content
ContentBlocks ==
    SelectSeq(document,
        LAMBDA b : b.by \in {"add_assessment_section",
                             "add_assessment_metadata",
                             "_create_question_table"})

BlockLabel(b) ==
    IF b.by = "add_assessment_section" THEN <<"banner", b.rows[1].value>>
    ELSE IF b.by = "add_assessment_metadata" THEN <<"metadata", <<>>>>
    ELSE <<"question", b.rows[1].value>>

Rendered == [i \in 1..Len(ContentBlocks) |-> BlockLabel(ContentBlocks[i])]

QuestionLabels(questions) ==
    [i \in 1..Len(questions) |->
        <<"question", clean_text(questions[i].elementNumber) \o <<" ">>
                          \o clean_text(questions[i].questionText)>>]

BannerLabel(element) ==
    <<"banner", clean_text(element.elementNumber) \o <<".", " ">>
                    \o clean_text(element.sectionName)>>

SubSectionLabels(sub) ==
    <<BannerLabel(sub)>> \o QuestionLabels(sub.questionDetails)

SectionLabels(section) ==
    <<BannerLabel(section)>> \o QuestionLabels(section.questionDetails)
        \o (IF "subSections" \in DOMAIN section
            THEN Flatten([i \in 1..Len(section.subSections) |->
                             SubSectionLabels(section.subSections[i])])
            ELSE <<>>)

\* the content of the input in input order
Expected ==
    << <<"banner", <<"Details">>>>, <<"metadata", <<>>>> >>
        \o (IF "sections" \in DOMAIN data
            THEN Flatten([s \in 1..Len(data.sections) |->
                             SectionLabels(data.sections[s])])
            ELSE <<>>)

Loaded == pc \notin {"Load", "Aborted"}

Errors == {i \in 1..Len(log) : log[i].level = "ERROR"}

Rank(p) ==
    CASE p = "Load" -> 0
      [] p = "InitStyles" -> 1
      [] p = "RenderMetadata" -> 2
      [] p = "RenderSections" -> 3
      [] p = "Save" -> 4
      [] p \in {"Saved", "Aborted", "Raised"} -> 5
      [] p = "Failed" -> 6

SaveOnlyAfterSuccess ==
    /\ saved \in {0, 1}
    /\ saved = 1 =>
           /\ pc = "Saved"
           /\ styles # {}
           /\ Rendered = Expected
           /\ raised = ""
           /\ Errors = {}
    /\ pc = "Aborted" =>
           /\ Len(log) = 1 /\ log[1].level = "ERROR"
           /\ document = <<>>
           /\ styles = {}
           /\ saved = 0
    /\ (raised # "" \/ Errors # {}) => saved = 0

\* C2: the run goes forward through Load, InitStyles, RenderMetadata,
\* RenderSections and Save; save happens at most once, in the step from
\* Save, after the load, the metadata and every section; a failed load ends
\* in Aborted with one error logged, nothing styled or rendered and nothing
\* saved, and nothing is saved after a failure.
C2_LinearRun ==
    /\ []SaveOnlyAfterSuccess
    /\ [][/\ Rank(pc') >= Rank(pc)
          /\ pc = "Aborted" => pc' = "Aborted"
          /\ saved' # saved => (pc = "Save" /\ saved' = saved + 1)]_vars

C2_Witness ==
    /\ pc = "Aborted"
    /\ log = <<Log("ERROR", "Error decoding JSON from the data file.")>>
    /\ saved = 0

TablesOfQuestions ==
    SelectSeq(document,
        LAMBDA b : b.by \in {"build_question", "_create_question_table"})

RECURSIVE CountQuestions(_)
CountQuestions(elements) ==
    IF elements = <<>> THEN 0
    ELSE Len(Head(elements).questionDetails)
         + (IF "subSections" \in DOMAIN Head(elements)
            THEN CountQuestions(Head(elements).subSections) ELSE 0)
         + CountQuestions(Tail(elements))

\* C10: once every section is rendered the document holds one two-column
\* table per question of the input, each starting with the header row.
C10_OneTablePerQuestion ==
    pc \in {"Save", "Saved"} =>
        /\ Len(TablesOfQuestions) = CountQuestions(data.sections)
        /\ \A i \in 1..Len(TablesOfQuestions) :
               /\ TablesOfQuestions[i].cols = 2
               /\ TablesOfQuestions[i].rows # <<>>
               /\ TablesOfQuestions[i].rows[1].kind = "header"

====
